---- MODULE Spec2Model ----
(***************************************************************************)
(* MotionPlay front end: the Settings page (key bindings, sensitivity,     *)
(* persistence in localStorage) and the GameDashboard page (the WebSocket  *)
(* bridge to the motion-detection backend).                                *)
(*                                                                         *)
(* One action is one event handler run to completion, together with the    *)
(* React effects that the handler's state updates trigger: React flushes   *)
(* the effects of a discrete event before the next event is dispatched.    *)
(* Numbers are kept in hundredths (0.5 is 50).                             *)
(***************************************************************************)
EXTENDS Integers, Sequences, FiniteSets, TLC

\* ------------------------------------------------------------------ bounds
\* number of keyboard keys (taken from the end of KEYBOARD_LAYOUT) that
\* receive drops
MaxKeys == 5
\* number of WebSocket objects created in one run
MaxSockets == 3
\* the same, in runs that also edit the settings
MaxAppSockets == 1

\* --------------------------------------------------------------- constants
\* the null of a state variable that is not a stored property value
NULL == "null"

\* JavaScript property values: strings, numbers (in hundredths), NaN, null
Str(s) == [t |-> "string", s |-> s, n |-> 0]

Num(n) == [t |-> "number", s |-> "", n |-> n]

NaN == [t |-> "NaN", s |-> "", n |-> 0]

null == [t |-> "null", s |-> "", n |-> 0]

MOVEMENTS == <<"jump", "squat", "moveLeft", "moveRight">>

MovementIds == {MOVEMENTS[i] : i \in 1..Len(MOVEMENTS)}

KEYBOARD_LAYOUT ==
    <<"KeyW", "KeyA", "KeyS", "KeyD",
      "ArrowUp", "ArrowLeft", "ArrowDown", "ArrowRight", "Space">>

KeyCodes ==
    {KEYBOARD_LAYOUT[i] :
        i \in (Len(KEYBOARD_LAYOUT) - MaxKeys + 1)..Len(KEYBOARD_LAYOUT)}

DEFAULT_MAPPINGS ==
    [m \in MovementIds |->
        CASE m = "jump" -> Str("Space")
          [] m = "squat" -> Str("ArrowDown")
          [] m = "moveLeft" -> Str("ArrowLeft")
          [] m = "moveRight" -> Str("ArrowRight")]

SensitivityKeys ==
    {"jumpSensitivity", "squatSensitivity", "sideSensitivity",
     "repeatDelay", "repeatInterval"}

DEFAULT_SENSITIVITY ==
    [p \in SensitivityKeys |->
        CASE p = "jumpSensitivity" -> Num(50)
          [] p = "squatSensitivity" -> Num(50)
          [] p = "sideSensitivity" -> Num(50)
          [] p = "repeatDelay" -> Num(100)
          [] p = "repeatInterval" -> Num(20)]

\* the parameters that have a range input, with the input's min and max
RangeInputs == {"jumpSensitivity", "squatSensitivity", "sideSensitivity",
                "repeatDelay"}

RangeMin(p) == 10

RangeMax(p) == IF p = "repeatDelay" THEN 200 ELSE 100

\* ------------------------------------------------------------- parseFloat
DigitChars == <<"0", "1", "2", "3", "4", "5", "6", "7", "8", "9">>

IsDigit(c) == \E i \in 1..Len(DigitChars) : DigitChars[i] = c

DigitVal(c) == (CHOOSE i \in 1..Len(DigitChars) : DigitChars[i] = c) - 1

RECURSIVE DigitRun(_, _)
\* the longest run of digits of s that starts at position i
DigitRun(s, i) ==
    IF i <= Len(s) /\ IsDigit(s[i])
    THEN <<s[i]>> \o DigitRun(s, i + 1)
    ELSE <<>>

RECURSIVE NatVal(_)
NatVal(ds) ==
    IF ds = <<>> THEN 0
    ELSE 10 * NatVal(SubSeq(ds, 1, Len(ds) - 1)) + DigitVal(ds[Len(ds)])

\* parseFloat of a string given as its characters: optional sign, digits,
\* optional fraction; the longest numeric prefix is used and NaN is the
\* result when there is none.  The value is in hundredths; fraction digits
\* past the second are dropped (the range inputs step by 0.05 and 0.1).
ParseFloat(s) ==
    LET signed == Len(s) >= 1 /\ s[1] \in {"-", "+"}
        sign == IF signed /\ s[1] = "-" THEN -1 ELSE 1
        start == IF signed THEN 2 ELSE 1
        ip == DigitRun(s, start)
        dotAt == start + Len(ip)
        hasDot == dotAt <= Len(s) /\ s[dotAt] = "."
        fp == IF hasDot THEN DigitRun(s, dotAt + 1) ELSE <<>>
        tenths == IF Len(fp) >= 1 THEN DigitVal(fp[1]) ELSE 0
        hundredths == IF Len(fp) >= 2 THEN DigitVal(fp[2]) ELSE 0
    IN IF ip = <<>> /\ fp = <<>>
       THEN NaN
       ELSE Num(sign * (100 * NatVal(ip) + 10 * tenths + hundredths))

\* the values handed to handleSensitivityChange
SensitivityInputs ==
    { <<"0", ".", "1">>, <<"1", ".", "5">>, <<"2", ".", "5">>, <<>> }

\* ------------------------------------------------------------------- JSON
\* A JSON text is modelled by its content: an object text is its members,
\* each a key with the literal written for it; any other text that
\* JSON.parse rejects is the garbage text.
StringLiteral(s) == [lit |-> "string", s |-> s, n |-> 0]

NumberLiteral(n) == [lit |-> "number", s |-> "", n |-> n]

NullLiteral == [lit |-> "null", s |-> "", n |-> 0]

\* JSON.stringify of one property value: null and NaN are both written as
\* the literal null
JSONLiteral(v) ==
    CASE v.t = "string" -> StringLiteral(v.s)
      [] v.t = "number" -> NumberLiteral(v.n)
      [] OTHER -> NullLiteral

\* the value JSON.parse builds for a literal
JSONValue(l) ==
    CASE l.lit = "string" -> Str(l.s)
      [] l.lit = "number" -> Num(l.n)
      [] OTHER -> null

\* JSON.stringify of a plain object (a function from keys to values)
JSONStringify(obj) ==
    [kind |-> "object", members |-> [k \in DOMAIN obj |-> JSONLiteral(obj[k])]]

\* a stored text that is not JSON
GarbageText == [kind |-> "garbage", members |-> <<>>]

\* what getItem returns for an item that was never written (null)
Absent == [kind |-> "absent", members |-> <<>>]

\* JSON.parse throws SyntaxError on a text that is not JSON
ThrowsSyntaxError(text) == text.kind # "object"

\* JSON.parse of a JSON text: the object
JSONParse(text) ==
    [k \in DOMAIN text.members |-> JSONValue(text.members[k])]

\* ------------------------------------------------------------------ state
VARIABLES
    page,             \* the mounted route: "dashboard", "settings", "crashed"
    mappings,         \* Settings: movement id -> key code or null
                      \* (<<>> while Settings is not mounted)
    draggedMovement,  \* Settings: drag session
    replaced,         \* history: the movement whose drag the latest
                      \* handleDragStart overwrote, NULL if there was none
    saved,            \* Settings: the "Saved!" flag
    sensitivity,      \* Settings: parameter -> number
    localStorage,     \* item name -> stored text, or Absent
    isConnected,      \* GameDashboard
    isRunning,        \* GameDashboard
    ws,               \* GameDashboard: index into sockets, 0 for null
    sockets,          \* every WebSocket created so far
    event             \* the event whose handler ran last

vars == <<page, mappings, draggedMovement, replaced, saved, sensitivity,
          localStorage, isConnected, isRunning, ws, sockets, event>>

settingsVars == <<mappings, draggedMovement, replaced, saved, sensitivity>>

dashboardVars == <<isConnected, isRunning, ws, sockets>>

Event(name, arg) == [name |-> name, arg |-> arg]

\* a snapshot an earlier session of the page left in the store
SavedMappings ==
    [DEFAULT_MAPPINGS EXCEPT !["jump"] = Str("ArrowUp"), !["squat"] = null]

SavedSensitivity ==
    [DEFAULT_SENSITIVITY EXCEPT !["jumpSensitivity"] = Num(30)]

\* what the store can hold for an item when the application is loaded
InitialItems(snapshot) == {Absent, JSONStringify(snapshot), GarbageText}

Init ==
    /\ page = "dashboard"
    /\ mappings = <<>>
    /\ draggedMovement = NULL
    /\ replaced = NULL
    /\ saved = FALSE
    /\ sensitivity = <<>>
    /\ localStorage \in
         [movementMappings : InitialItems(SavedMappings),
          movementSensitivity : InitialItems(SavedSensitivity)]
    /\ isConnected = FALSE
    /\ isRunning = FALSE
    /\ ws = 0
    /\ sockets = <<>>
    /\ event = Event("load", NULL)

\* --------------------------------------------------------------- Settings
\* The handlers are modelled as they are written: each accepts any movement
\* id, key code, parameter name and value text, whatever the widgets that
\* call them happen to offer.
\* the useState initializer of mappings
LoadMappings(store) ==
    IF store.movementMappings # Absent
    THEN JSONParse(store.movementMappings)
    ELSE DEFAULT_MAPPINGS

\* the useState initializer of sensitivity
LoadSensitivity(store) ==
    IF store.movementSensitivity # Absent
    THEN JSONParse(store.movementSensitivity)
    ELSE DEFAULT_SENSITIVITY

\* the two persistence effects
PersistNothing(store, m) == store

PersistMappings(store, m) ==
    [store EXCEPT !.movementMappings = JSONStringify(m)]

PersistSensitivity(store, s) ==
    [store EXCEPT !.movementSensitivity = JSONStringify(s)]

handleDragStartFirstWins(movementId) ==
    /\ page = "settings"
    /\ draggedMovement' =
         IF draggedMovement # NULL THEN draggedMovement ELSE movementId
    /\ replaced' = draggedMovement
    /\ event' = Event("handleDragStart", movementId)
    /\ UNCHANGED <<page, mappings, saved, sensitivity, localStorage>>
    /\ UNCHANGED dashboardVars

handleDragStart(movementId) ==
    /\ page = "settings"
    /\ draggedMovement' = movementId
    /\ replaced' = draggedMovement
    /\ event' = Event("handleDragStart", movementId)
    /\ UNCHANGED <<page, mappings, saved, sensitivity, localStorage>>
    /\ UNCHANGED dashboardVars

handleDragEnd ==
    /\ page = "settings"
    /\ draggedMovement' = NULL
    /\ replaced' = NULL
    /\ event' = Event("handleDragEnd", NULL)
    /\ UNCHANGED <<page, mappings, saved, sensitivity, localStorage>>
    /\ UNCHANGED dashboardVars

\* the mapping handleKeyDrop builds: every holder of keyCode is cleared,
\* then the dragged movement gets keyCode
DropMappingNoClear(old, dragged, keyCode) ==
    [old EXCEPT ![dragged] = Str(keyCode)]

DropMappingClearAll(old, dragged, keyCode) ==
    [m \in DOMAIN old |-> IF m = dragged THEN Str(keyCode) ELSE null]

DropMapping(old, dragged, keyCode) ==
    LET cleared == [m \in DOMAIN old |->
                       IF old[m] = Str(keyCode) THEN null ELSE old[m]]
    IN [cleared EXCEPT ![dragged] = Str(keyCode)]

handleKeyDropKeepsDrag(keyCode) ==
    /\ page = "settings"
    /\ IF draggedMovement # NULL
       THEN /\ mappings' = DropMapping(mappings, draggedMovement, keyCode)
            /\ localStorage' = PersistMappings(localStorage, mappings')
       ELSE UNCHANGED <<mappings, localStorage>>
    /\ event' = Event("handleKeyDrop", keyCode)
    /\ UNCHANGED <<page, draggedMovement, replaced, saved, sensitivity>>
    /\ UNCHANGED dashboardVars

handleKeyDropUnguarded(keyCode) ==
    /\ page = "settings"
    /\ mappings' = [m \in DOMAIN mappings |->
                       IF m = draggedMovement THEN Str(keyCode)
                       ELSE IF mappings[m] = Str(keyCode) THEN null
                       ELSE mappings[m]]
    /\ draggedMovement' = NULL
    /\ localStorage' = PersistMappings(localStorage, mappings')
    /\ event' = Event("handleKeyDrop", keyCode)
    /\ UNCHANGED <<page, replaced, saved, sensitivity>>
    /\ UNCHANGED dashboardVars

handleKeyDrop(keyCode) ==
    /\ page = "settings"
    /\ IF draggedMovement # NULL
       THEN /\ mappings' = DropMapping(mappings, draggedMovement, keyCode)
            /\ draggedMovement' = NULL
            /\ localStorage' = PersistMappings(localStorage, mappings')
       ELSE UNCHANGED <<mappings, draggedMovement, localStorage>>
    /\ event' = Event("handleKeyDrop", keyCode)
    /\ UNCHANGED <<page, replaced, saved, sensitivity>>
    /\ UNCHANGED dashboardVars

\* the mapping handleClearMapping builds
ClearMappingToggle(prev, movementId) ==
    [prev EXCEPT ![movementId] =
        IF @ = null THEN DEFAULT_MAPPINGS[movementId] ELSE null]

ClearMapping(prev, movementId) == [prev EXCEPT ![movementId] = null]

handleClearMapping(movementId) ==
    /\ page = "settings"
    /\ mappings' = ClearMapping(mappings, movementId)
    /\ localStorage' = PersistMappings(localStorage, mappings')
    /\ event' = Event("handleClearMapping", movementId)
    /\ UNCHANGED <<page, draggedMovement, replaced, saved, sensitivity>>
    /\ UNCHANGED dashboardVars

handleSave ==
    /\ page = "settings"
    /\ localStorage' =
         PersistSensitivity(PersistMappings(localStorage, mappings), sensitivity)
    /\ saved' = TRUE
    /\ event' = Event("handleSave", NULL)
    /\ UNCHANGED <<page, mappings, draggedMovement, replaced, sensitivity>>
    /\ UNCHANGED dashboardVars

\* the timer handleSave starts
savedTimeout ==
    /\ page = "settings"
    /\ saved = TRUE
    /\ saved' = FALSE
    /\ event' = Event("savedTimeout", NULL)
    /\ UNCHANGED <<page, mappings, draggedMovement, replaced, sensitivity,
                   localStorage>>
    /\ UNCHANGED dashboardVars

handleReset ==
    /\ page = "settings"
    /\ mappings' = DEFAULT_MAPPINGS
    /\ sensitivity' = DEFAULT_SENSITIVITY
    /\ localStorage' =
         PersistSensitivity(PersistMappings(localStorage, mappings'), sensitivity')
    /\ event' = Event("handleReset", NULL)
    /\ UNCHANGED <<page, draggedMovement, replaced, saved>>
    /\ UNCHANGED dashboardVars

\* the value handleSensitivityChange stores for an input
StoredValue(key, value) == ParseFloat(value)

handleSensitivityChange(key, value) ==
    /\ page = "settings"
    /\ sensitivity' = [sensitivity EXCEPT ![key] = StoredValue(key, value)]
    /\ localStorage' = PersistSensitivity(localStorage, sensitivity')
    /\ event' = Event("handleSensitivityChange", <<key, value>>)
    /\ UNCHANGED <<page, mappings, draggedMovement, replaced, saved>>
    /\ UNCHANGED dashboardVars

\* -------------------------------------------------------------- WebSocket
\* The transport follows the WebSocket interface: a connection that fails
\* (also one closed by close() before it was established) gets the error
\* event and then the close event in one task; an established connection
\* that ends gets the close event only, unless it is failed.
\* A WebSocket object: its readyState, whether its open event was delivered,
\* whether the component that created it is gone (orphan: its handlers'
\* state setters then do nothing), the alerts its onerror raised, and the
\* log of what the client did on it: messages transmitted and the close()
\* call that started closing it.
NullText == [kind |-> "null", members |-> <<>>]

NewWebSocket ==
    [readyState |-> "CONNECTING", opened |-> FALSE, orphan |-> FALSE,
     alerts |-> 0, log |-> <<>>]

\* mappings ? JSON.parse(mappings) : null, as written into the message
Payload(item) ==
    IF item = Absent THEN NullText ELSE JSONStringify(JSONParse(item))

ConfigMessageDefaults(store) ==
    [type |-> "config",
     mappings |-> JSONStringify(DEFAULT_MAPPINGS),
     sensitivity |-> JSONStringify(DEFAULT_SENSITIVITY)]

ConfigMessage(store) ==
    [type |-> "config",
     mappings |-> Payload(store.movementMappings),
     sensitivity |-> Payload(store.movementSensitivity)]

StopMessage == [type |-> "stop", mappings |-> NullText, sensitivity |-> NullText]

CloseCall == [type |-> "close", mappings |-> NullText, sensitivity |-> NullText]

\* socket.send on a socket that is not CONNECTING: transmitted when the
\* socket is OPEN, silently discarded when it is CLOSING or CLOSED
SendAlways(sock, msg) == [sock EXCEPT !.log = Append(@, msg)]

Send(sock, msg) ==
    IF sock.readyState = "OPEN"
    THEN [sock EXCEPT !.log = Append(@, msg)]
    ELSE sock

\* socket.close(): starts closing a socket that is CONNECTING or OPEN
Close(sock) ==
    IF sock.readyState \in {"CONNECTING", "OPEN"}
    THEN [sock EXCEPT !.readyState = "CLOSING", !.log = Append(@, CloseCall)]
    ELSE sock

\* alert(...) in the onerror of a socket
RaiseNoAlert(sock) == sock

RaiseAlert(sock) == [sock EXCEPT !.alerts = @ + 1]

\* the cleanup of the effect on [ws]
CleanupNone(socks, old) == socks

Cleanup(socks, old) ==
    IF old # 0 THEN [socks EXCEPT ![old] = Close(@)] ELSE socks

\* ---------------------------------------------------------- GameDashboard
\* the branch of handleToggleBackend taken when isRunning is false
StartBranch ==
    /\ Len(sockets) < MaxSockets
    /\ sockets' = Append(Cleanup(sockets, ws), NewWebSocket)
    /\ ws' = Len(sockets) + 1
    /\ UNCHANGED <<isConnected, isRunning>>

\* the branch taken when isRunning is true; send throws on a socket that
\* is still CONNECTING and the handler stops there
StopBranchOnlyRunning ==
    IF ws # 0 /\ sockets[ws].readyState = "CONNECTING"
    THEN UNCHANGED dashboardVars
    ELSE /\ sockets' = IF ws # 0
                       THEN [sockets EXCEPT ![ws] = Close(Send(@, StopMessage))]
                       ELSE sockets
         /\ isRunning' = FALSE
         /\ UNCHANGED <<ws, isConnected>>

StopBranch ==
    IF ws # 0 /\ sockets[ws].readyState = "CONNECTING"
    THEN UNCHANGED dashboardVars
    ELSE /\ sockets' = IF ws # 0
                       THEN [sockets EXCEPT ![ws] = Close(Send(@, StopMessage))]
                       ELSE sockets
         /\ isRunning' = FALSE
         /\ isConnected' = FALSE
         /\ UNCHANGED ws

handleToggleBackend ==
    /\ page = "dashboard"
    /\ IF ~isRunning THEN StartBranch ELSE StopBranch
    /\ event' = Event("handleToggleBackend",
                      IF ~isRunning THEN "start" ELSE "stop")
    /\ UNCHANGED <<page, localStorage>>
    /\ UNCHANGED settingsVars

\* the open event of socket i
onopen(i) ==
    /\ sockets[i].readyState = "CONNECTING"
    /\ IF sockets[i].orphan
       THEN UNCHANGED <<isConnected, isRunning>>
       ELSE isConnected' = TRUE /\ isRunning' = TRUE
    /\ LET opened == [sockets[i] EXCEPT !.readyState = "OPEN", !.opened = TRUE]
           throws ==
               \/ /\ localStorage.movementMappings # Absent
                  /\ ThrowsSyntaxError(localStorage.movementMappings)
               \/ /\ localStorage.movementSensitivity # Absent
                  /\ ThrowsSyntaxError(localStorage.movementSensitivity)
       IN sockets' = [sockets EXCEPT ![i] =
                         IF throws THEN opened
                         ELSE Send(opened, ConfigMessage(localStorage))]
    /\ event' = Event("onopen", i)
    /\ UNCHANGED <<page, localStorage, ws>>
    /\ UNCHANGED settingsVars

\* the connection of socket i fails (the endpoint is unreachable, close()
\* was called before the connection was established, or an established
\* connection is failed): the error event, then the close event
onerror(i) ==
    /\ \/ sockets[i].readyState \in {"CONNECTING", "OPEN"}
       \/ sockets[i].readyState = "CLOSING" /\ ~sockets[i].opened
    /\ sockets' = [sockets EXCEPT ![i] =
                      RaiseAlert([@ EXCEPT !.readyState = "CLOSED"])]
    /\ IF sockets[i].orphan
       THEN UNCHANGED <<isConnected, isRunning>>
       ELSE isConnected' = FALSE /\ isRunning' = FALSE
    /\ event' = Event("onerror", i)
    /\ UNCHANGED <<page, localStorage, ws>>
    /\ UNCHANGED settingsVars

\* an established connection of socket i is closed without an error event
onclose(i) ==
    /\ \/ sockets[i].readyState = "OPEN"
       \/ sockets[i].readyState = "CLOSING" /\ sockets[i].opened
    /\ sockets' = [sockets EXCEPT ![i].readyState = "CLOSED"]
    /\ IF sockets[i].orphan
       THEN UNCHANGED <<isConnected, isRunning>>
       ELSE isConnected' = FALSE /\ isRunning' = FALSE
    /\ event' = Event("onclose", i)
    /\ UNCHANGED <<page, localStorage, ws>>
    /\ UNCHANGED settingsVars

\* the backend starts the closing handshake on socket i: the readyState
\* becomes CLOSING and no handler runs until the close event
closingHandshake(i) ==
    /\ sockets[i].readyState = "OPEN"
    /\ sockets' = [sockets EXCEPT ![i].readyState = "CLOSING"]
    /\ event' = Event("closingHandshake", i)
    /\ UNCHANGED <<page, localStorage, ws, isConnected, isRunning>>
    /\ UNCHANGED settingsVars

\* -------------------------------------------------------------------- App
\* the route changes from / to /settings: GameDashboard unmounts (its
\* effect cleanup runs), Settings mounts (initializers, then both effects)
NavigateToSettings ==
    /\ page = "dashboard"
    /\ sockets' = [i \in DOMAIN sockets |->
                      [Cleanup(sockets, ws)[i] EXCEPT !.orphan = TRUE]]
    /\ isConnected' = FALSE
    /\ isRunning' = FALSE
    /\ ws' = 0
    /\ IF \/ /\ localStorage.movementMappings # Absent
             /\ ThrowsSyntaxError(localStorage.movementMappings)
          \/ /\ localStorage.movementSensitivity # Absent
             /\ ThrowsSyntaxError(localStorage.movementSensitivity)
       THEN /\ page' = "crashed"
            /\ UNCHANGED <<mappings, sensitivity, localStorage>>
       ELSE /\ page' = "settings"
            /\ mappings' = LoadMappings(localStorage)
            /\ sensitivity' = LoadSensitivity(localStorage)
            /\ localStorage' =
                 PersistSensitivity(PersistMappings(localStorage, mappings'),
                                    sensitivity')
    /\ draggedMovement' = NULL
    /\ replaced' = NULL
    /\ saved' = FALSE
    /\ event' = Event("NavigateToSettings", NULL)

\* the route changes from /settings to /: Settings unmounts, GameDashboard
\* mounts with its initial state
NavigateToGames ==
    /\ page = "settings"
    /\ page' = "dashboard"
    /\ mappings' = <<>>
    /\ sensitivity' = <<>>
    /\ draggedMovement' = NULL
    /\ replaced' = NULL
    /\ saved' = FALSE
    /\ isConnected' = FALSE
    /\ isRunning' = FALSE
    /\ ws' = 0
    /\ event' = Event("NavigateToGames", NULL)
    /\ UNCHANGED <<localStorage, sockets>>

Navigate == NavigateToSettings \/ NavigateToGames

\* --------------------------------------------------------- specifications
KeyBindingNext ==
    \/ Navigate
    \/ \E m \in MovementIds : handleDragStart(m)
    \/ handleDragEnd
    \/ \E k \in KeyCodes : handleKeyDrop(k)
    \/ \E m \in MovementIds : handleClearMapping(m)
    \/ handleReset
    \/ handleSave
    \/ savedTimeout

SensitivityNext ==
    \/ Navigate
    \/ \E p \in RangeInputs, v \in SensitivityInputs :
          handleSensitivityChange(p, v)
    \/ handleReset
    \/ handleSave
    \/ savedTimeout

BridgeNext ==
    \/ Navigate
    \/ handleToggleBackend
    \/ \E i \in DOMAIN sockets : onopen(i)
    \/ \E i \in DOMAIN sockets : onerror(i)
    \/ \E i \in DOMAIN sockets : onclose(i)
    \/ \E i \in DOMAIN sockets : closingHandshake(i)

Next == KeyBindingNext \/ SensitivityNext \/ BridgeNext

\* the whole front end
Spec == Init /\ [][Next]_vars

\* the user only edits key bindings
SpecKeyBinding == Init /\ [][KeyBindingNext]_vars

\* the user only edits sensitivity
SpecSensitivity == Init /\ [][SensitivityNext]_vars

\* the user only operates the bridge
SpecBridge == Init /\ [][BridgeNext]_vars

\* the user edits both key bindings and the jump sensitivity
SettingsNext ==
    \/ Navigate
    \/ \E m \in {"jump", "squat"} : handleDragStart(m)
    \/ \E k \in {"ArrowUp", "ArrowDown"} : handleKeyDrop(k)
    \/ \E m \in {"jump", "squat"} : handleClearMapping(m)
    \/ \E v \in SensitivityInputs : handleSensitivityChange("jumpSensitivity", v)
    \/ handleReset

SpecSettings == Init /\ [][SettingsNext]_vars

\* a session that edits settings and operates the bridge: the user drags
\* jump onto ArrowDown, clears jump, sets the jump sensitivity to 0.1,
\* resets, and toggles the backend
AppToggle ==
    /\ isRunning \/ Len(sockets) < MaxAppSockets
    /\ handleToggleBackend

AppNext ==
    \/ Navigate
    \/ handleDragStart("jump")
    \/ handleKeyDrop("ArrowDown")
    \/ handleClearMapping("jump")
    \/ handleSensitivityChange("jumpSensitivity", <<"0", ".", "1">>)
    \/ handleReset
    \/ AppToggle
    \/ \E i \in DOMAIN sockets : onopen(i)
    \/ \E i \in DOMAIN sockets : onerror(i)
    \/ \E i \in DOMAIN sockets : onclose(i)

SpecApp == Init /\ [][AppNext]_vars

\* ----------------------------------------------------------------- claims
Count(log, type) == Cardinality({j \in 1..Len(log) : log[j].type = type})

ClientClosed(sock) == Count(sock.log, "close") > 0

TotalAlerts ==
    LET RECURSIVE Sum(_)
        Sum(n) == IF n = 0 THEN 0 ELSE sockets[n].alerts + Sum(n - 1)
    IN Sum(Len(sockets))

LiveSockets ==
    {i \in DOMAIN sockets : sockets[i].readyState \in {"CONNECTING", "OPEN"}}

\* C1 Exclusivity: in every state reached by drags, drops, clears and
\* resets, no two distinct movements are bound to the same non-null key.
C1_Exclusivity ==
    page = "settings" =>
        \A a, b \in MovementIds :
            (a # b /\ mappings[a] # null) => mappings[a] # mappings[b]

\* a drop of jump on squat's key has taken the key away from squat
C1_Witness ==
    /\ page = "settings"
    /\ event = Event("handleKeyDrop", "ArrowDown")
    /\ mappings["jump"] = Str("ArrowDown")
    /\ mappings["squat"] = null

\* C2 Assign result: a drop of key k while movement d is dragged yields the
\* old mapping with every holder of k set to null and then d set to k;
\* every other movement keeps its binding and the page does not fail.
C2_AssignResult ==
    [][(page = "settings" /\ draggedMovement # NULL
          /\ event'.name = "handleKeyDrop")
       => /\ page' = "settings"
          /\ \A m \in MovementIds :
               mappings'[m] =
                   IF m = draggedMovement THEN Str(event'.arg)
                   ELSE IF mappings[m] = Str(event'.arg) THEN null
                   ELSE mappings[m]]_vars

\* from the default mapping jump was dropped on ArrowDown
C2_Witness ==
    /\ page = "settings"
    /\ event = Event("handleKeyDrop", "ArrowDown")
    /\ draggedMovement = NULL
    /\ mappings = [DEFAULT_MAPPINGS EXCEPT !["jump"] = Str("ArrowDown"),
                                           !["squat"] = null]

\* C3 Bridge idempotence: a click on the toggle that directly follows a
\* start click (no transport event in between) is a no-op: it creates no
\* socket and changes none.
C3_BridgeIdempotence ==
    [][(event = Event("handleToggleBackend", "start")
          /\ event'.name = "handleToggleBackend")
       => sockets' = sockets]_vars

\* C4 Connection failure notification: a socket that is closed and was not
\* closed by the client has raised exactly one notification, and the close
\* or error of a socket of the mounted dashboard leaves it Disconnected.
C4_FailureNotified ==
    /\ \A i \in DOMAIN sockets :
         (sockets[i].readyState = "CLOSED" /\ ~ClientClosed(sockets[i]))
            => sockets[i].alerts = 1
    /\ (event.name \in {"onerror", "onclose"} /\ ~sockets[event.arg].orphan)
          => (~isRunning /\ ~isConnected)

\* C5 Unreachable endpoint: a socket that ended without ever opening and
\* without the client closing it raised exactly one notification and
\* carried no message, and its failure left the dashboard Disconnected.
C5_Unreachable ==
    \A i \in DOMAIN sockets :
        (sockets[i].readyState = "CLOSED" /\ ~sockets[i].opened
           /\ ~ClientClosed(sockets[i]))
        => /\ sockets[i].alerts = 1
           /\ sockets[i].log = <<>>
           /\ (event = Event("onerror", i) /\ ~sockets[i].orphan)
                 => (~isRunning /\ ~isConnected)

\* the first start failed to open
C5_Witness ==
    /\ event = Event("onerror", 1)
    /\ sockets[1].readyState = "CLOSED"
    /\ ~sockets[1].opened
    /\ ~ClientClosed(sockets[1])
    /\ page = "dashboard"

\* C6 Config exactly once: a socket carries one config message if it has
\* opened and none if it has not, and the message is sent in the step that
\* delivers the open event.
C6_ConfigOnce ==
    \A i \in DOMAIN sockets :
        Count(sockets[i].log, "config") = IF sockets[i].opened THEN 1 ELSE 0

\* C7 Stop protocol: a stop click while Connected appends one stop message
\* and then the close call to the current socket and sets the state to
\* Disconnected; no socket carries two stop messages and a stop message
\* always precedes the close call.
StopOrder ==
    \A i \in DOMAIN sockets :
        LET log == sockets[i].log
        IN /\ Count(log, "stop") <= 1
           /\ \A j, k \in 1..Len(log) :
                (log[j].type = "stop" /\ log[k].type = "close") => j < k

C7_StopProtocol ==
    /\ []StopOrder
    /\ [][(page = "dashboard" /\ isRunning
             /\ event'.name = "handleToggleBackend")
          => /\ ws # 0
             /\ sockets'[ws].log = sockets[ws].log \o <<StopMessage, CloseCall>>
             /\ ~isRunning' /\ ~isConnected']_vars

\* C7 amended: the stop message and the close call are appended when the
\* current socket is still OPEN; when the backend has already started the
\* closing handshake nothing is transmitted; in both cases the state
\* becomes Disconnected.
C7_StopProtocolAmended ==
    /\ []StopOrder
    /\ [][(page = "dashboard" /\ isRunning
             /\ event'.name = "handleToggleBackend")
          => /\ ws # 0
             /\ sockets[ws].readyState \in {"OPEN", "CLOSING"}
             /\ sockets'[ws].log =
                  IF sockets[ws].readyState = "OPEN"
                  THEN sockets[ws].log \o <<StopMessage, CloseCall>>
                  ELSE sockets[ws].log
             /\ sockets'[ws].readyState = "CLOSING"
             /\ ~isRunning' /\ ~isConnected']_vars

\* a stop click on an open socket
C7_Witness ==
    /\ event = Event("handleToggleBackend", "stop")
    /\ ws # 0
    /\ Count(sockets[ws].log, "stop") = 1
    /\ sockets[ws].readyState = "CLOSING"
    /\ ~isRunning

\* C8 No error on intentional stop: from a stop click until the next start
\* click no notification is raised.
C8_NoErrorOnStop ==
    [][(page = "dashboard" /\ ~isRunning /\ ws # 0
          /\ Count(sockets[ws].log, "stop") = 1)
       => TotalAlerts' = TotalAlerts]_vars

\* C9 Single live connection: at most one socket is CONNECTING or OPEN.
C9_SingleLive == Cardinality(LiveSockets) <= 1

\* a second socket is open while the first one, superseded, is closing
C9_Witness ==
    /\ Len(sockets) >= 2
    /\ sockets[1].readyState = "CLOSING"
    /\ sockets[2].readyState = "OPEN"

\* C10 Range invariant: every stored value of a parameter with a range
\* input is a number within the input's min and max.
C10_RangeInvariant ==
    page = "settings" =>
        \A p \in RangeInputs :
            /\ sensitivity[p].t = "number"
            /\ RangeMin(p) <= sensitivity[p].n
            /\ sensitivity[p].n <= RangeMax(p)

\* C11 Malformed snapshot on load: mounting Settings never ends in the
\* failed page, and an item that cannot be parsed is replaced by the
\* default value.
C11_MalformedLoad ==
    [][(page = "dashboard" /\ event'.name = "NavigateToSettings")
       => /\ page' = "settings"
          /\ (localStorage.movementMappings = GarbageText
                => mappings' = DEFAULT_MAPPINGS)
          /\ (localStorage.movementSensitivity = GarbageText
                => sensitivity' = DEFAULT_SENSITIVITY)]_vars

\* C12 Drag atomicity: a drop of key k that directly follows
\* handleDragStart(B) binds B to k; every other movement, the one whose
\* drag B overwrote included, keeps its binding or loses k.
C12_LastDragWins ==
    [][(page = "settings" /\ event.name = "handleDragStart"
          /\ event'.name = "handleKeyDrop")
       => /\ mappings'[event.arg] = Str(event'.arg)
          /\ \A m \in MovementIds \ {event.arg} :
               mappings'[m] = IF mappings[m] = Str(event'.arg)
                              THEN null ELSE mappings[m]]_vars

\* jump was being dragged, squat's drag overwrote it, ArrowUp went to squat
C12_Witness ==
    /\ page = "settings"
    /\ event = Event("handleKeyDrop", "ArrowUp")
    /\ replaced = "jump"
    /\ draggedMovement = NULL
    /\ mappings["squat"] = Str("ArrowUp")
    /\ mappings["jump"] # Str("ArrowUp")

\* C13 At most one assignment per drag sequence: every drop and every
\* drag end leaves the session Idle; a drop made while Idle, a drop that
\* directly follows a drop, and a drag end leave the mapping unchanged.
C13_OneAssignmentPerDrag ==
    [][/\ (page = "settings" /\ event'.name = "handleKeyDrop")
          => /\ draggedMovement' = NULL
             /\ (draggedMovement = NULL => mappings' = mappings)
             /\ (event.name = "handleKeyDrop" => mappings' = mappings)
       /\ (page = "settings" /\ event'.name = "handleDragEnd")
          => /\ draggedMovement' = NULL
             /\ mappings' = mappings
             /\ localStorage' = localStorage]_vars

\* a drag was cancelled: the session is idle, the mapping still the default
C13_Witness ==
    /\ page = "settings"
    /\ event = Event("handleDragEnd", NULL)
    /\ draggedMovement = NULL
    /\ mappings = DEFAULT_MAPPINGS

\* C14 Stray drop: a drop while no movement is dragged changes neither the
\* mapping, the stored items, the sensitivity values nor the drag session.
C14_StrayDrop ==
    [][(page = "settings" /\ draggedMovement = NULL
          /\ event'.name = "handleKeyDrop")
       => UNCHANGED <<mappings, localStorage, sensitivity, draggedMovement>>]_vars

\* a drop on ArrowUp after which no movement holds ArrowUp: it was stray
C14_Witness ==
    /\ page = "settings"
    /\ event = Event("handleKeyDrop", "ArrowUp")
    /\ draggedMovement = NULL
    /\ \A m \in MovementIds : mappings[m] # Str("ArrowUp")

\* C15 Round-trip: right after handleSave, the initializers applied to the
\* store give back the mapping and the sensitivity values in memory.
C15_RoundTrip ==
    (page = "settings" /\ event.name = "handleSave")
    => /\ LoadMappings(localStorage) = mappings
       /\ LoadSensitivity(localStorage) = sensitivity

\* C16 Clear idempotence: handleClearMapping(m) leaves m null and every
\* other binding as it was, and clearing m again changes nothing.
C16_ClearIdempotent ==
    [][(page = "settings" /\ event'.name = "handleClearMapping")
       => /\ mappings'[event'.arg] = null
          /\ \A o \in MovementIds \ {event'.arg} : mappings'[o] = mappings[o]
          /\ ClearMapping(mappings', event'.arg) = mappings']_vars

\* jump, bound by default, has been cleared
C16_Witness ==
    /\ page = "settings"
    /\ event = Event("handleClearMapping", "jump")
    /\ mappings = [DEFAULT_MAPPINGS EXCEPT !["jump"] = null]

\* the store holds exactly what the effects write for the values in memory
Persisted ==
    /\ localStorage.movementMappings = JSONStringify(mappings)
    /\ localStorage.movementSensitivity = JSONStringify(sensitivity)

\* what the config message carries for a stored item
Carried(item) == IF item = Absent THEN NullText ELSE item

\* C17 Config payload: while Settings is mounted the store holds the
\* snapshot of the values its latest handler left; the dashboard never
\* changes the store; the config message sent at an open event carries the
\* two items as stored at that moment, null for an item never written; and
\* when both items are absent or parsable the message is sent.
C17_ConfigPayload ==
    /\ [](page = "settings" => Persisted)
    /\ [][(page = "dashboard" /\ page' = "dashboard")
          => localStorage' = localStorage]_vars
    /\ [][event'.name = "onopen"
          => LET before == sockets[event'.arg].log
                 after == sockets'[event'.arg].log
             IN /\ (after # before
                      => after = Append(before,
                            [type |-> "config",
                             mappings |-> Carried(localStorage.movementMappings),
                             sensitivity |->
                                Carried(localStorage.movementSensitivity)]))
                /\ (/\ localStorage.movementMappings # GarbageText
                    /\ localStorage.movementSensitivity # GarbageText)
                      => after # before]_vars

\* the first socket opened after jump was dropped on ArrowDown in Settings:
\* its config message carries that mapping
C17_Witness ==
    /\ event = Event("onopen", 1)
    /\ Len(sockets[1].log) = 1
    /\ sockets[1].log[1].type = "config"
    /\ sockets[1].log[1].mappings =
         JSONStringify([DEFAULT_MAPPINGS EXCEPT !["jump"] = Str("ArrowDown"),
                                                !["squat"] = null])

\* C18 Persist on every mutation: after a drop, a clear, a reset or a
\* sensitivity change the two stored items are the snapshots of the values
\* in memory, and after a reset the mapping and its item are the default.
C18_PersistOnMutation ==
    (page = "settings"
       /\ event.name \in {"handleKeyDrop", "handleClearMapping",
                          "handleReset", "handleSensitivityChange"})
    => /\ Persisted
       /\ event.name = "handleReset"
            => /\ mappings = DEFAULT_MAPPINGS
               /\ localStorage.movementMappings = JSONStringify(DEFAULT_MAPPINGS)

\* the jump sensitivity was set to 0.1 and the stored item follows
C18_Witness ==
    /\ page = "settings"
    /\ event.name = "handleSensitivityChange"
    /\ sensitivity["jumpSensitivity"] = Num(10)
    /\ mappings["squat"] = null
    /\ Persisted

\* C19 The two status flags never diverge: in every state of the dashboard,
\* whatever toggle clicks and open, close and error events came before,
\* isConnected equals isRunning.
C19_FlagsAgree == isConnected = isRunning

\* a socket has opened and then the user stopped: both flags went up
\* together and came down together
C19_Witness ==
    /\ page = "dashboard"
    /\ event = Event("handleToggleBackend", "stop")
    /\ ws # 0
    /\ sockets[ws].opened
    /\ ~isConnected
    /\ ~isRunning

\* C20 Status agrees with the current channel: a close or error event of a
\* socket other than the current one never changes isConnected or
\* isRunning; whenever the most recently created socket is OPEN the state
\* is Connected; and whenever the state is Disconnected no socket of the
\* client is OPEN.
C20_StatusAgrees ==
    /\ [][(event'.name \in {"onclose", "onerror"} /\ event'.arg # ws)
            => UNCHANGED <<isConnected, isRunning>>]_vars
    /\ [](page = "dashboard"
            => /\ (sockets # <<>> /\ sockets[Len(sockets)].readyState = "OPEN")
                    => isConnected
               /\ ~isConnected
                    => \A i \in DOMAIN sockets : sockets[i].readyState # "OPEN")

====
